---------------------------- MODULE Spec2Model ----------------------------
(***************************************************************************)
(* Role-based access control of icesoft_backend: the express guards        *)
(* authenticateUser and authorizePermission, the Role Store handlers       *)
(* postRole / updateRole / deleteRole, putUser and loginUser, over a       *)
(* durable Role collection whose `name` path is unique, trimmed and        *)
(* lowercased by the schema.                                               *)
(*                                                                         *)
(* Strings the code normalises (role names) are sequences of one-character *)
(* strings, so toLowerCase and trim are computed; permission names, which  *)
(* the code only compares, are plain strings.                              *)
(***************************************************************************)
EXTENDS Integers, Sequences, FiniteSets, TLC

\* ------------------------------------------------------------------ bounds
MaxRoleId == 2      \* role documents ever created (ObjectIds are never reused)
MaxReq    == 2      \* requests in flight at once
MaxUsers  == 2      \* user documents

RoleIds == 1..MaxRoleId
UserIds == 1..MaxUsers
ReqIds  == 1..MaxReq

\* ------------------------------------------------------- names (char seqs)
admin     == <<"a","d","m","i","n">>
assistant == <<"a","s","s","i","s","t","a","n","t">>
employee  == <<"e","m","p","l","o","y","e","e">>
cashier   == <<"c","a","s","h","i","e","r">>
AdminRaw  == <<" ","A","d","m","i","n"," ">>
CashierRaw == <<"C","a","s","h","i","e","r"," ">>
NoName    == << >>

\* String.prototype.toLowerCase, on the letters the inputs use
toLowerChar(c) ==
  CASE c = "A" -> "a"
    [] c = "C" -> "c"
    [] c = "E" -> "e"
    [] OTHER   -> c

toLowerCase(s) == [i \in DOMAIN s |-> toLowerChar(s[i])]

RECURSIVE trimStart(_)
trimStart(s) == IF s # << >> /\ Head(s) = " " THEN trimStart(Tail(s)) ELSE s

RECURSIVE trimEnd(_)
trimEnd(s) ==
  IF s # << >> /\ s[Len(s)] = " " THEN trimEnd(SubSeq(s, 1, Len(s) - 1)) ELSE s

\* String.prototype.trim
trim(s) == trimEnd(trimStart(s))

\* Array.prototype.includes
includes(list, x) == \E i \in DOMAIN list : list[i] = x

\* ------------------------------------------------------ Permission Catalog
ALL_PERMISSIONS ==
  << "view_roles", "view_roles_id", "create_roles", "update_roles", "delete_roles",
     "create_users", "view_users", "view_users_id", "update_users", "delete_users",
     "view_categories", "view_categories_id", "create_categories", "update_categories", "delete_categories",
     "view_products", "view_products_id", "create_products", "edit_products", "delete_products",
     "view_providers", "view_providers_id", "create_providers", "update_providers", "delete_providers",
     "view_purchases", "view_purchases_id", "create_purchases", "update_purchases", "delete_purchases",
     "view_branches", "create_branches", "update_branches", "delete_branches",
     "view_customers", "view_customers_id", "create_customers", "update_customers", "delete_customers",
     "view_sales", "view_sales_id", "create_sales", "update_sales", "delete_sales" >>

DEFAULT_PERMISSIONS_admin ==
  << "view_roles", "view_roles_id", "create_roles", "update_roles", "delete_roles",
     "create_users", "view_users", "view_users_id", "update_users", "delete_users",
     "view_categories", "view_categories_id", "create_categories", "update_categories", "delete_categories",
     "view_products", "view_products_id", "create_products", "edit_products", "delete_products",
     "view_providers", "view_providers_id", "create_providers", "update_providers", "delete_providers",
     "view_purchases", "view_purchases_id", "create_purchases", "update_purchases", "delete_purchases",
     "view_branches", "create_branches", "update_branches", "delete_branches",
     "view_customers", "view_customers_id", "create_customers", "update_customers", "delete_customers",
     "view_sales", "view_sales_id", "create_sales", "update_sales", "delete_sales" >>

DEFAULT_PERMISSIONS_assistant ==
  << "view_roles", "create_users", "view_users", "view_users_id", "update_users",
     "view_categories", "view_categories_id", "create_categories", "view_customers",
     "view_products", "view_products_id", "create_products", "edit_products", "delete_products",
     "view_providers", "view_providers_id", "create_providers", "update_providers",
     "view_purchases", "view_purchases_id", "create_purchases", "update_purchases",
     "view_customers", "view_customers_id", "create_customers", "update_customers",
     "view_sales", "view_sales_id", "create_sales", "update_sales" >>

DEFAULT_PERMISSIONS_employee ==
  << "view_categories", "view_products", "view_products_id", "create_products", "edit_products", "delete_products",
     "view_customers", "view_sales", "view_customers_id", "create_sales", "update_sales" >>

\* DEFAULT_PERMISSIONS[roleName] || []
getDefaultPermissions(roleName) ==
  CASE roleName = admin     -> DEFAULT_PERMISSIONS_admin
    [] roleName = assistant -> DEFAULT_PERMISSIONS_assistant
    [] roleName = employee  -> DEFAULT_PERMISSIONS_employee
    [] OTHER                -> << >>

\* RoleSchema.statics.getDefaultRoles
getDefaultRoles == << admin, assistant, employee >>

\* ------------------------------------------------------------------ inputs
\* req.body.name of postRole / updateRole (NoName: the field is absent)
NameInputs == { NoName, admin, AdminRaw, employee, cashier, CashierRaw }

\* the names a stored role can have under these inputs
StoredNames == { admin, employee, cashier }

\* req.body.permissions of postRole / updateRole (given = FALSE: absent)
PermLists == { << "view_sales" >>, << "export_sales", "update_roles" >> }
PermBodies == { [given |-> FALSE, list |-> << >>] }
                \cup { [given |-> TRUE, list |-> l] : l \in PermLists }

StatusInputs == { "", "active", "inactive", "suspended" }
MwRevs == { "auth.middleware.js", "part_004" }

\* ------------------------------------------------------------------ records
RoleDoc(id, name, isDefault, permissions) ==
  [id |-> id, name |-> name, isDefault |-> isDefault, permissions |-> permissions]

NoRef == [kind |-> "none", id |-> 0, name |-> NoName]
IdRef(id) == [kind |-> "id", id |-> id, name |-> NoName]
NameRef(name) == [kind |-> "name", id |-> 0, name |-> name]

\* jwt.sign({ id, role }): the claims of a token
Claims(id, role) == [id |-> id, role |-> role]
NoClaims == Claims(0, NoRef)

\* res.status(status).json({ message, required, role, token })
Res(status, message) ==
  [status |-> status, message |-> message, required |-> "", role |-> NoName,
   token |-> NoClaims]

\* the Authorization header: absent, a string jwt.verify rejects (bad
\* signature, expired), or a token signed by this server
NoHeader == [kind |-> "none", id |-> 0, role |-> NoRef]
Unverifiable(claims) == [kind |-> "unverifiable", id |-> claims.id, role |-> claims.role]
Signed(claims) == [kind |-> "signed", id |-> claims.id, role |-> claims.role]

NoDoc == RoleDoc(0, NoName, FALSE, << >>)

Idle ==
  [pc |-> "idle", mw |-> "", route |-> "", stage |-> 0, header |-> NoHeader,
   user |-> << >>, res |-> << >>, ustatus |-> "", name |-> NoName, doc |-> NoDoc,
   table |-> "", action |-> "", ret |-> << >>, caught |-> "", body |-> << >>]

\* ------------------------------------------------------------------- routes
\* router.<verb>(path, ...guards, handler): the chain express walks, one
\* element per next(); perm is the literal given to authorizePermission
Guarded(perm, handler) ==
  [chain |-> << "authenticateUser", "authorizePermission", handler >>, perm |-> perm]
AuthOnly(handler) == [chain |-> << "authenticateUser", handler >>, perm |-> ""]
Open(handler) == [chain |-> << handler >>, perm |-> ""]

RouteTable ==
  [ r \in { "POST /auth/register", "POST /auth/login", "GET /auth/me",
            "POST /auth/reset-password",
            "GET /users", "GET /users/:id", "PUT /users/:id", "DELETE /users/:id",
            "GET /roles", "GET /roles/:id", "POST /roles", "PUT /roles/:id",
            "DELETE /roles/:id",
            "GET /sales", "GET /sales/:id", "POST /sales", "PUT /sales/:id",
            "DELETE /sales/:id", "GET /sales/export/pdf", "GET /sales/export/excel",
            "POST /sales/:id/invoice",
            "GET /purchases", "GET /purchases/:id", "POST /purchases",
            "PUT /purchases/:id", "DELETE /purchases/:id" } |->
    CASE r = "POST /auth/register"       -> Guarded("create_users", "registerUser")
      [] r = "POST /auth/login"          -> Open("loginUser")
      [] r = "GET /auth/me"              -> AuthOnly("getAuthenticatedUser")
      [] r = "POST /auth/reset-password" -> AuthOnly("changeOwnPassword")
      [] r = "GET /users"                -> Guarded("view_users", "getUsers")
      [] r = "GET /users/:id"            -> Guarded("view_users_id", "getOneUser")
      [] r = "PUT /users/:id"            -> Guarded("update_users", "putUser")
      [] r = "DELETE /users/:id"         -> Guarded("delete_users", "deleteUser")
      [] r = "GET /roles"                -> Guarded("view_roles", "getRoles")
      [] r = "GET /roles/:id"            -> Guarded("view_roles_id", "getRoleById")
      [] r = "POST /roles"               -> Guarded("create_roles", "postRole")
      [] r = "PUT /roles/:id"            -> Guarded("update_roles", "updateRole")
      [] r = "DELETE /roles/:id"         -> Guarded("delete_roles", "deleteRole")
      [] r = "GET /sales"                -> Guarded("view_sales", "getSales")
      [] r = "GET /sales/:id"            -> Guarded("view_sales_id", "getSaleById")
      [] r = "POST /sales"               -> Guarded("create_sales", "createSale")
      [] r = "PUT /sales/:id"            -> Guarded("update_sales", "updateSale")
      [] r = "DELETE /sales/:id"         -> Guarded("delete_sales", "deleteSale")
      [] r = "GET /sales/export/pdf"     -> Guarded("export_sales", "exportSalesToPDF")
      [] r = "GET /sales/export/excel"   -> Guarded("export_sales", "exportSalesToExcel")
      [] r = "POST /sales/:id/invoice"   -> Guarded("generate_invoice", "generateInvoice")
      [] r = "GET /purchases"            -> Guarded("view_purchases", "getPurchases")
      [] r = "GET /purchases/:id"        -> Guarded("view_purchases_id", "getPurchaseById")
      [] r = "POST /purchases"           -> Guarded("create_purchases", "postPurchase")
      [] r = "PUT /purchases/:id"        -> Guarded("update_purchases", "updatePurchase")
      [] r = "DELETE /purchases/:id"     -> Guarded("delete_purchases", "deletePurchase") ]

Routes == DOMAIN RouteTable
Chain(route) == RouteTable[route].chain

\* the routes requests of the pipeline specifications take
RouteInputs ==
  { "POST /auth/login", "GET /auth/me", "PUT /users/:id", "POST /roles",
    "PUT /roles/:id", "DELETE /roles/:id", "GET /sales", "GET /sales/export/pdf" }

\* handlers whose code this model keeps: every other one is a collaborator
PurchaseHandlers ==
  { "getPurchases", "getPurchaseById", "postPurchase", "updatePurchase", "deletePurchase" }
CoreHandlers ==
  { "loginUser", "putUser", "postRole", "updateRole", "deleteRole" } \cup PurchaseHandlers
Collaborators == { Chain(r)[Len(Chain(r))] : r \in Routes } \ CoreHandlers

\* -------------------------------------------------------------------- state
VARIABLES
  roles,       \* the Role collection: a set of role documents
  nextRoleId,  \* the _id the next saved role document gets
  users,       \* the User collection: id -> [role (a role _id), status]
  reqs         \* requests in flight: slot -> request

vars == << roles, nextRoleId, users, reqs >>

\* ------------------------------------------------------------ Role model
\* RoleSchema name: { trim: true, lowercase: true }
SchemaName(s) == trim(toLowerCase(s))

\* RoleSchema name: { required: true }
NameValid(doc) == doc.name # NoName

\* a collection without the unique index on name
UniqueIndexOk_noIndex(store, doc) == TRUE

\* RoleSchema name: { unique: true }: the index rejects a write that would
\* leave two documents with the same name
UniqueIndexOk(store, doc) == \A d \in store : d.id # doc.id => d.name # doc.name

\* Role.findById(id)
findById(store, id) == { d \in store : d.id = id }

\* Role.findOne({ name })
findOneByName(store, name) == { d \in store : d.name = name }

\* ----------------------------------------------------------- express steps
\* next(): hand the request to the next element of the route's chain
next(q) == [q EXCEPT !.stage = q.stage + 1, !.pc = Chain(q.route)[q.stage + 1]]

\* a handler's res.status(..).json(..): the request ends
respond(q, res) == [q EXCEPT !.pc = "done", !.res = << res >>]

\* a guard that answers without `return`: the chain goes on
reject_andNext(q, res) ==
  [q EXCEPT !.stage = q.stage + 1, !.pc = Chain(q.route)[q.stage + 1], !.res = << res >>]

\* a guard's `return res.status(..).json(..)`: the request ends at this
\* stage, next() is not called
reject(q, res) == [q EXCEPT !.pc = "done", !.res = << res >>]

\* ------------------------------------------------------- authenticateUser
\* jwt.decode in place of jwt.verify: the signature is not checked
verifyToken_decodeOnly(header) ==
  IF header.kind = "none" THEN << Res(401, "No token provided") >>
  ELSE IF header.id = 0 \/ header.role.kind = "none" THEN << Res(401, "Invalid token") >>
  ELSE << >>

\* the part both revisions share, up to the claims check: the response that
\* ends the request, or << >> when the token is verified and carries id and role
verifyToken(header) ==
  IF header.kind = "none" THEN << Res(401, "No token provided") >>
  ELSE IF header.kind = "unverifiable" THEN << Res(401, "Token error") >>
  ELSE IF header.id = 0 \/ header.role.kind = "none" THEN << Res(401, "Invalid token") >>
  ELSE << >>

\* role documents kept from the first read instead of a query per request
resolveRole_cached(store, ref) ==
  LET kept == { RoleDoc(1, admin, TRUE, getDefaultPermissions(admin)),
                RoleDoc(2, cashier, FALSE, << "view_sales" >>) }
  IN IF ref.kind = "id" THEN findById(kept, ref.id) ELSE findOneByName(kept, ref.name)

\* mongoose.Types.ObjectId.isValid(decoded.role) ? findById : findOne({name})
resolveRole(store, ref) ==
  IF ref.kind = "id" THEN findById(store, ref.id) ELSE findOneByName(store, ref.name)

\* the lookup without the `if (!role)` rejection
authenticateRole_unchecked(q, store, status) ==
  LET found == resolveRole(store, q.header.role)
      role == IF found = {} THEN NoDoc ELSE CHOOSE d \in found : TRUE
  IN next([q EXCEPT !.user = << [id |-> q.header.id, roleId |-> role.id,
                                 role |-> role, status |-> status] >>])

\* the role lookup and what follows it; status is what req.user.status gets
\* ("undefined" where the revision sets no status)
authenticateRole(q, store, status) ==
  LET found == resolveRole(store, q.header.role) IN
  IF found = {} THEN reject(q, Res(403, "Role not found"))
  ELSE LET role == CHOOSE d \in found : TRUE IN
       next([q EXCEPT !.user = << [id |-> q.header.id, roleId |-> role.id,
                                   role |-> role, status |-> status] >>])

\* src/middlewares/auth.middleware.js: no user lookup
authenticateUser_base(q, store) ==
  IF verifyToken(q.header) # << >> THEN reject(q, verifyToken(q.header)[1])
  ELSE authenticateRole(q, store, "undefined")

\* src/unnamed/part_004, up to and including `await User.findById(decoded.id)`
authenticateUser_user(q, us) ==
  IF verifyToken(q.header) # << >> THEN reject(q, verifyToken(q.header)[1])
  ELSE IF q.header.id \notin DOMAIN us THEN reject(q, Res(404, "User not found"))
  ELSE IF us[q.header.id].status = "inactive"
       THEN reject(q, Res(403, "Your account is inactive. Please contact an administrator."))
  ELSE [q EXCEPT !.pc = "authenticateUser_role", !.ustatus = us[q.header.id].status]

\* src/unnamed/part_001: `await Role.findById(decoded.role)` whatever the
\* reference is; a name is not castable to an ObjectId, the query throws
\* and the catch block answers
authenticateUser_byId(q, store) ==
  IF verifyToken(q.header) # << >> THEN reject(q, verifyToken(q.header)[1])
  ELSE IF q.header.role.kind = "name"
       THEN [reject(q, Res(401, "Token error")) EXCEPT !.caught = "cast"]
  ELSE authenticateRole(q, store, "undefined")

\* src/unnamed/part_003: no lookup, req.user.role is the token's reference
authenticateUser_claims(q) ==
  IF verifyToken(q.header) # << >> THEN reject(q, verifyToken(q.header)[1])
  ELSE next([q EXCEPT !.user = << [id |-> q.header.id, roleId |-> 0,
                                   role |-> q.header.role, status |-> "undefined"] >>])

\* an authenticateUser that clears the user's role reference when the
\* token's role is not found
AuthenticateUser_clearsRole(r) ==
  /\ reqs[r].pc = "authenticateUser"
  /\ reqs' = [reqs EXCEPT ![r] =
                IF reqs[r].mw = "part_004" THEN authenticateUser_user(reqs[r], users)
                ELSE authenticateUser_base(reqs[r], roles)]
  /\ users' = IF reqs'[r].res = << Res(403, "Role not found") >>
              THEN [users EXCEPT ![reqs[r].header.id].role = 0]
              ELSE users
  /\ UNCHANGED << roles, nextRoleId >>

AuthenticateUser(r) ==
  /\ reqs[r].pc = "authenticateUser"
  /\ reqs' = [reqs EXCEPT ![r] =
                IF reqs[r].mw = "part_004" THEN authenticateUser_user(reqs[r], users)
                ELSE IF reqs[r].mw = "part_001" THEN authenticateUser_byId(reqs[r], roles)
                ELSE IF reqs[r].mw = "part_003" THEN authenticateUser_claims(reqs[r])
                ELSE authenticateUser_base(reqs[r], roles)]
  /\ UNCHANGED << roles, nextRoleId, users >>

\* src/unnamed/part_004 after the user lookup: the role lookup, req.user, next()
AuthenticateUserRole(r) ==
  /\ reqs[r].pc = "authenticateUser_role"
  /\ reqs' = [reqs EXCEPT ![r] = authenticateRole(reqs[r], roles, reqs[r].ustatus)]
  /\ UNCHANGED << roles, nextRoleId, users >>

\* a catch block that swallows the error and lets the request through
authenticateUser_caught_next(q) == [next(q) EXCEPT !.caught = "store"]

\* `catch (error)` of authenticateUser, entered from a Role or User lookup
\* that throws (store unreachable): the request ends, next() is not called
authenticateUser_caught(q) ==
  [reject(q, Res(401, "Token error")) EXCEPT !.caught = "store"]

\* `await User.findById(..)` / `await Role.findById(..)` / `await
\* Role.findOne(..)` throws: reached only with a verified token
AuthenticateUserThrows(r) ==
  /\ reqs[r].pc \in { "authenticateUser", "authenticateUser_role" }
  /\ verifyToken(reqs[r].header) = << >>
  /\ reqs' = [reqs EXCEPT ![r] = authenticateUser_caught(reqs[r])]
  /\ UNCHANGED << roles, nextRoleId, users >>

\* ---------------------------------------------------- authorizePermission
\* req.user.role.permissions.some(p => ... p.name === permission)
hasStoredPermission(role, permission) ==
  Len(role.permissions) > 0 /\ includes(role.permissions, permission)

hasDefaultPermission(roleName, permission) ==
  /\ includes(<< admin, assistant, employee >>, roleName)
  /\ includes(getDefaultPermissions(roleName), permission)

\* part_004 only: the status re-check at the top of the guard
statusGate(mw, user) == mw = "part_004" /\ user.status = "inactive"

\* the guard without the `roleName === 'admin'` case
authorizePermission_noAdminCase(mw, user, permission) ==
  IF user = << >> THEN << Res(401, "Authentication required") >>
  ELSE IF statusGate(mw, user[1]) THEN << Res(403, "Your account is inactive") >>
  ELSE IF hasDefaultPermission(user[1].role.name, permission) THEN << >>
  ELSE IF hasStoredPermission(user[1].role, permission) THEN << >>
  ELSE << [Res(403, "Insufficient permissions") EXCEPT
             !.required = permission, !.role = user[1].role.name] >>

\* the guard deciding a built-in name on the default table alone
authorizePermission_exclusive(mw, user, permission) ==
  IF user = << >> THEN << Res(401, "Authentication required") >>
  ELSE IF statusGate(mw, user[1]) THEN << Res(403, "Your account is inactive") >>
  ELSE IF user[1].role.name = admin THEN << >>
  ELSE IF hasDefaultPermission(user[1].role.name, permission) THEN << >>
  ELSE IF /\ ~includes(<< admin, assistant, employee >>, user[1].role.name)
          /\ hasStoredPermission(user[1].role, permission) THEN << >>
  ELSE << [Res(403, "Insufficient permissions") EXCEPT
             !.required = permission, !.role = user[1].role.name] >>

\* the guard deciding on the isDefault flag: the default table for a flagged
\* role, the stored list for any other
authorizePermission_byFlag(mw, user, permission) ==
  IF user = << >> THEN << Res(401, "Authentication required") >>
  ELSE IF statusGate(mw, user[1]) THEN << Res(403, "Your account is inactive") >>
  ELSE IF user[1].role.isDefault /\ user[1].role.name = admin THEN << >>
  ELSE IF user[1].role.isDefault /\ hasDefaultPermission(user[1].role.name, permission)
    THEN << >>
  ELSE IF ~user[1].role.isDefault /\ hasStoredPermission(user[1].role, permission)
    THEN << >>
  ELSE << [Res(403, "Insufficient permissions") EXCEPT
             !.required = permission, !.role = user[1].role.name] >>

\* the decision of the guard: "next" or the response it sends
authorizePermission(mw, user, permission) ==
  IF user = << >> THEN << Res(401, "Authentication required") >>
  ELSE IF statusGate(mw, user[1]) THEN << Res(403, "Your account is inactive") >>
  ELSE IF user[1].role.name = admin THEN << >>
  ELSE IF hasDefaultPermission(user[1].role.name, permission) THEN << >>
  ELSE IF hasStoredPermission(user[1].role, permission) THEN << >>
  ELSE << [Res(403, "Insufficient permissions") EXCEPT
             !.required = permission, !.role = user[1].role.name] >>

\* src/utils/permissions.js checkPermission: the table of the first revision
checkPermission_admin ==
  << "view_roles", "create_roles", "create_users", "view_users", "view_users_id",
     "update_users", "delete_users",
     "view_categories", "view_categories_id", "create_categories", "update_categories",
     "delete_categories",
     "view_products", "view_products_id", "create_products", "edit_products",
     "delete_products",
     "view_providers", "view_providers_id", "create_providers", "update_providers",
     "delete_providers",
     "view_purchases", "view_purchases_id", "create_purchases", "update_purchases",
     "delete_purchases",
     "view_branches", "view_branches", "create_branches", "update_branches",
     "delete_branches", "view_customers",
     "view_customers", "view_customers_id", "create_customers", "update_customers",
     "delete_customers",
     "view_sales", "view_sales_id", "create_sales", "update_sales", "delete_sales" >>

checkPermission_assistant ==
  << "view_roles", "create_users", "view_users", "view_users_id", "update_users",
     "view_categories", "create_categories", "update_categories", "view_customers",
     "view_products", "create_products", "update_products", "delete_products",
     "view_providers", "view_providers_id", "create_providers", "update_providers",
     "view_purchases", "view_purchases_id", "create_purchases", "update_purchases",
     "view_customers", "view_customers_id", "create_customers", "update_customers",
     "view_sales", "view_sales_id", "create_sales", "update_sales" >>

checkPermission_employee ==
  << "view_categories", "view_products", "view_customers", "view_sales",
     "view_customers_id", "create_sales", "update_sales" >>

\* permissions[role]?.includes(action): undefined (falsy) for any other name
checkPermission(role, action) ==
  IF role = admin THEN includes(checkPermission_admin, action)
  ELSE IF role = assistant THEN includes(checkPermission_assistant, action)
  ELSE IF role = employee THEN includes(checkPermission_employee, action)
  ELSE FALSE

\* src/unnamed/part_010, second revision: DEFAULT_PERMISSIONS
DEFAULT_PERMISSIONS_admin_165 ==
  << "view_roles", "create_roles", "update_roles", "delete_roles",
     "create_users", "view_users", "view_users_id", "update_users", "delete_users",
     "view_categories", "view_categories_id", "create_categories", "update_categories", "delete_categories",
     "view_products", "view_products_id", "create_products", "edit_products", "delete_products",
     "view_providers", "view_providers_id", "create_providers", "update_providers", "delete_providers",
     "view_purchases", "view_purchases_id", "create_purchases", "update_purchases", "delete_purchases",
     "view_branches", "create_branches", "update_branches", "delete_branches",
     "view_customers", "view_customers_id", "create_customers", "update_customers", "delete_customers",
     "view_sales", "view_sales_id", "create_sales", "update_sales", "delete_sales" >>

DEFAULT_PERMISSIONS_assistant_165 ==
  << "view_roles", "create_users", "view_users", "view_users_id", "update_users",
     "view_categories", "create_categories", "update_categories", "view_customers",
     "view_products", "create_products", "update_products", "delete_products",
     "view_providers", "view_providers_id", "create_providers", "update_providers",
     "view_purchases", "view_purchases_id", "create_purchases", "update_purchases",
     "view_customers", "view_customers_id", "create_customers", "update_customers",
     "view_sales", "view_sales_id", "create_sales", "update_sales" >>

DEFAULT_PERMISSIONS_employee_165 ==
  << "view_categories", "view_products", "view_customers", "view_sales",
     "view_customers_id", "create_sales", "update_sales" >>

\* the three revisions of the permission table, by where each starts
TableRevs == { "part_010:44", "part_010:165", "utils/permissions.js:1" }

\* DEFAULT_PERMISSIONS[roleName] || [] of the revision (permissions[role] in
\* src/utils/permissions.js, where a missing key ends in a falsy answer)
DEFAULT_PERMISSIONS(table, roleName) ==
  CASE table = "part_010:165" ->
         ( CASE roleName = admin     -> DEFAULT_PERMISSIONS_admin_165
             [] roleName = assistant -> DEFAULT_PERMISSIONS_assistant_165
             [] roleName = employee  -> DEFAULT_PERMISSIONS_employee_165
             [] OTHER                -> << >> )
    [] table = "utils/permissions.js:1" ->
         ( CASE roleName = admin     -> checkPermission_admin
             [] roleName = assistant -> checkPermission_assistant
             [] roleName = employee  -> checkPermission_employee
             [] OTHER                -> << >> )
    [] OTHER -> getDefaultPermissions(roleName)

\* a call that reads the table by role name: getDefaultPermissions(roleName)
\* and the membership test every caller makes on its result
LookupDefaults(r) ==
  /\ reqs[r].pc = "getDefaultPermissions"
  /\ LET q == reqs[r]
         list == DEFAULT_PERMISSIONS(q.table, q.name)
     IN reqs' = [reqs EXCEPT ![r] =
                  [q EXCEPT !.pc = "done",
                            !.ret = << [list |-> list, includes |-> includes(list, q.action)] >>]]
  /\ UNCHANGED << roles, nextRoleId, users >>

\* src/unnamed/part_010:116-161 checkPermissionSync on a role document: the
\* table for a default role of a built-in name, else the stored list
checkPermissionSync(role, action) ==
  IF role.isDefault /\ role.name # NoName
       /\ role.name \in { admin, assistant, employee }
  THEN includes(getDefaultPermissions(role.name), action)
  ELSE includes(role.permissions, action)

\* src/unnamed/part_001 authorizePermission: checkPermissionSync decides
authorizePermission_sync(user, permission) ==
  IF user = << >> THEN << Res(401, "Authentication required") >>
  ELSE IF ~checkPermissionSync(user[1].role, permission)
       THEN << [Res(403, "Insufficient permissions") EXCEPT
                  !.required = permission, !.role = user[1].role.name] >>
  ELSE << >>

\* checkPermission(req.user.role, action) as a condition.  The table of
\* src/utils/permissions.js:1-23 is keyed by role name: a name in the table
\* answers by its list, anything else (an id, a role document) is undefined.
\* The async checkPermission of src/unnamed/part_010:90-113 returns a
\* Promise, which is truthy whatever it resolves to.
checkPermission_truthy(async, role, action) ==
  IF async THEN TRUE
  ELSE "kind" \in DOMAIN role /\ role.kind = "name" /\ checkPermission(role.name, action)

\* the checkPermission a middleware revision runs with: src/unnamed/part_003
\* with the table it calls synchronously, the revisions that import
\* checkPermissionSync with the module that exports it (src/unnamed/part_010)
checkPermission_async(mw) == mw # "part_003"

\* src/unnamed/part_003 authorizePermission
authorizePermission_table(user, permission) ==
  IF user = << >> \/ ~checkPermission_truthy(FALSE, user[1].role, permission)
  THEN << Res(403, "Permission denied") >>
  ELSE << >>

\* src/unnamed/part_002 authorizePermission: the role is read again by
\* req.user.roleId (`Role` is the model of src/models/role.js, which the file
\* uses without importing it); "next" or the response it sends
authorizePermission_refetch(store, user, permission) ==
  IF user = << >> THEN << Res(401, "Authentication required") >>
  ELSE LET found == findById(store, user[1].roleId) IN
       IF found = {} THEN << Res(403, "Role not found") >>
       ELSE LET role == CHOOSE d \in found : TRUE
                hasPermission ==
                  IF role.isDefault THEN checkPermission(role.name, permission)
                  ELSE includes(role.permissions, permission)
            IN IF ~hasPermission THEN << Res(403, "Insufficient permissions") >>
               ELSE << >>

AuthorizePermission(r) ==
  /\ reqs[r].pc = "authorizePermission"
  /\ LET q == reqs[r]
         d == IF q.mw = "part_002"
              THEN authorizePermission_refetch(roles, q.user, RouteTable[q.route].perm)
              ELSE IF q.mw = "part_001"
              THEN authorizePermission_sync(q.user, RouteTable[q.route].perm)
              ELSE IF q.mw = "part_003"
              THEN authorizePermission_table(q.user, RouteTable[q.route].perm)
              ELSE authorizePermission(q.mw, q.user, RouteTable[q.route].perm)
     IN reqs' = [reqs EXCEPT ![r] = IF d = << >> THEN next(q) ELSE reject(q, d[1])]
  /\ UNCHANGED << roles, nextRoleId, users >>

\* `catch (error)` of authorizePermission: an error thrown inside the guard
\* (in src/unnamed/part_002 the role lookup) ends the request
authorizePermission_caught(q) ==
  [reject(q, Res(403, "Authorization failed")) EXCEPT !.caught = "store"]

AuthorizePermissionThrows(r) ==
  /\ reqs[r].pc = "authorizePermission"
  /\ reqs[r].user # << >>
  /\ reqs' = [reqs EXCEPT ![r] = authorizePermission_caught(reqs[r])]
  /\ UNCHANGED << roles, nextRoleId, users >>

\* ----------------------------------------------------------------- postRole
\* src/controllers/sales.controller.js postRole, up to `new Role({...})`
postRole_check(q, store, name, perms) ==
  IF name = NoName THEN respond(q, Res(400, "Role name is required"))
  ELSE LET normalizedName == trim(toLowerCase(name))
           isDefault == includes(getDefaultRoles, normalizedName)
           rolePermissions ==
             IF isDefault THEN getDefaultPermissions(normalizedName)
             ELSE IF perms.given THEN perms.list ELSE << >>
       IN IF findOneByName(store, normalizedName) # {}
          THEN respond(q, Res(400, "Role already exists"))
          ELSE [q EXCEPT !.pc = "postRole_save",
                         !.doc = RoleDoc(0, SchemaName(normalizedName), isDefault, rolePermissions)]

\* src/controllers/role.controller.js postRole, up to `new Role({ name })`
postRoleV1_check(q, store, name) ==
  IF name = NoName \/ ~includes(<< admin, assistant, employee >>, name)
  THEN respond(q, Res(400, "Invalid role"))
  ELSE IF findOneByName(store, name) # {}
  THEN respond(q, Res(400, "Role already exists"))
  ELSE [q EXCEPT !.pc = "postRole_save", !.doc = RoleDoc(0, SchemaName(name), FALSE, << >>)]

PostRoleCheck(r, names, bodies) ==
  /\ reqs[r].pc = "postRole"
  /\ \E name \in names, perms \in bodies :
       reqs' = [reqs EXCEPT ![r] =
                  postRole_check([reqs[r] EXCEPT !.name = name], roles, name, perms)]
  /\ UNCHANGED << roles, nextRoleId, users >>

PostRoleV1Check(r, names) ==
  /\ reqs[r].pc = "postRole"
  /\ \E name \in names :
       reqs' = [reqs EXCEPT ![r] =
                  postRoleV1_check([reqs[r] EXCEPT !.name = name], roles, name)]
  /\ UNCHANGED << roles, nextRoleId, users >>

\* what `await newRole.save()` answers and the catch block after it
postRole_saveOk(store, doc) == NameValid(doc) /\ UniqueIndexOk(store, doc)

\* a save that writes over the stored role of the same name before it fails
PostRoleSave_overwrites(r) ==
  /\ reqs[r].pc = "postRole_save"
  /\ LET doc == [reqs[r].doc EXCEPT !.id = nextRoleId] IN
     IF postRole_saveOk(roles, doc)
     THEN /\ nextRoleId <= MaxRoleId
          /\ roles' = roles \cup { doc }
          /\ nextRoleId' = nextRoleId + 1
          /\ reqs' = [reqs EXCEPT ![r] =
                        respond([reqs[r] EXCEPT !.doc = doc], Res(201, "Role created successfully"))]
     ELSE /\ reqs' = [reqs EXCEPT ![r] = respond(reqs[r], Res(500, "Error creating role"))]
          /\ roles' = { IF d.name = doc.name THEN [doc EXCEPT !.id = d.id] ELSE d : d \in roles }
          /\ UNCHANGED nextRoleId
  /\ UNCHANGED users

\* `await newRole.save()` and the response, in both revisions
PostRoleSave(r) ==
  /\ reqs[r].pc = "postRole_save"
  /\ LET doc == [reqs[r].doc EXCEPT !.id = nextRoleId] IN
     IF postRole_saveOk(roles, doc)
     THEN /\ nextRoleId <= MaxRoleId
          /\ roles' = roles \cup { doc }
          /\ nextRoleId' = nextRoleId + 1
          /\ reqs' = [reqs EXCEPT ![r] =
                        respond([reqs[r] EXCEPT !.doc = doc], Res(201, "Role created successfully"))]
     ELSE /\ reqs' = [reqs EXCEPT ![r] = respond(reqs[r], Res(500, "Error creating role"))]
          /\ UNCHANGED << roles, nextRoleId >>
  /\ UNCHANGED users

\* --------------------------------------------------------------- updateRole
\* the document updateRole saves, from the stored one and the request body
updateRole_doc(role, name, perms) ==
  [role EXCEPT
     !.permissions = IF perms.given THEN perms.list ELSE role.permissions,
     !.name = IF name # NoName /\ ~role.isDefault
              THEN SchemaName(trim(toLowerCase(name))) ELSE role.name]

\* updateRole without the default-role check
updateRole_renamesDefault_never(role, name) == FALSE

\* "Cannot change the name of default roles"
updateRole_renamesDefault(role, name) ==
  role.isDefault /\ name # NoName /\ toLowerCase(name) # role.name

UpdateRole(r, names, bodies) ==
  /\ reqs[r].pc = "updateRole"
  /\ \E id \in RoleIds, name \in names, perms \in bodies :
       LET found == findById(roles, id)
           \* req.body.name as the handler got it
           q == [reqs[r] EXCEPT !.name = name]
       IN
       IF found = {}
       THEN /\ reqs' = [reqs EXCEPT ![r] = respond(q, Res(404, "Role not found"))]
            /\ UNCHANGED roles
       ELSE LET role == CHOOSE d \in found : TRUE
                doc == updateRole_doc(role, name, perms)
                \* `const role = await Role.findById(id)`
                qr == [q EXCEPT !.doc = role]
            IN IF updateRole_renamesDefault(role, name)
               THEN /\ reqs' = [reqs EXCEPT ![r] =
                          respond(qr, Res(400, "Cannot change the name of default roles"))]
                    /\ UNCHANGED roles
               ELSE IF NameValid(doc) /\ UniqueIndexOk(roles, doc)
               THEN /\ roles' = (roles \ { role }) \cup { doc }
                    /\ reqs' = [reqs EXCEPT ![r] =
                          respond(qr, Res(200, "Role updated successfully"))]
               ELSE /\ reqs' = [reqs EXCEPT ![r] =
                          respond(qr, Res(500, "Error updating role"))]
                    /\ UNCHANGED roles
  /\ UNCHANGED << nextRoleId, users >>

\* --------------------------------------------------------------- deleteRole
\* "Cannot delete default roles"
deleteRole_protected(role) == role.isDefault

DeleteRole(r) ==
  /\ reqs[r].pc = "deleteRole"
  /\ \E id \in RoleIds :
       LET found == findById(roles, id) IN
       IF found = {}
       THEN /\ reqs' = [reqs EXCEPT ![r] = respond(reqs[r], Res(404, "Role not found"))]
            /\ UNCHANGED roles
       ELSE LET role == CHOOSE d \in found : TRUE
                \* `const role = await Role.findById(id)`
                qr == [reqs[r] EXCEPT !.doc = role]
            IN IF deleteRole_protected(role)
               THEN /\ reqs' = [reqs EXCEPT ![r] =
                          respond(qr, Res(400, "Cannot delete default roles"))]
                    /\ UNCHANGED roles
               ELSE /\ roles' = roles \ found
                    /\ reqs' = [reqs EXCEPT ![r] =
                          respond(qr, Res(200, "Role deleted successfully"))]
  /\ UNCHANGED << nextRoleId, users >>

\* ------------------------------------------------------------------ putUser
\* an isAdmin that every requester passes
putUser_isAdmin_any(user) == TRUE

\* isAdmin of putUser: req.user.role is the role document both guards set
putUser_isAdmin(user) == user.role.name = admin

\* src/controllers/user.controller.js putUser; role = 0 and status = "" stand
\* for a body without that field.  The response, and the user document written.
putUser_result(q, store, us, id, role, status) ==
  LET user == q.user[1]
      isAdmin == putUser_isAdmin(user)
      setRole == isAdmin /\ role # 0
      setStatus == isAdmin /\ status # ""
      same(u) == [res |-> u, users |-> us]
  IN IF user.id # id /\ ~isAdmin
       THEN [res |-> Res(403, "Unauthorized to edit this user"), users |-> us]
     ELSE IF setRole /\ findById(store, role) = {}
       THEN [res |-> Res(400, "Invalid role ID"), users |-> us]
     ELSE IF setStatus /\ status \notin { "active", "inactive" }
       THEN [res |-> Res(400, "Status must be 'active' or 'inactive'"), users |-> us]
     ELSE IF user.id = id /\ status = "inactive"
       THEN [res |-> Res(403, "You cannot deactivate your own account"), users |-> us]
     ELSE IF id \notin DOMAIN us
       THEN [res |-> Res(404, "User not found"), users |-> us]
     ELSE [res |-> Res(200, "User updated successfully"),
           users |-> [us EXCEPT ![id] =
                        [role |-> IF setRole THEN role ELSE us[id].role,
                         status |-> IF setStatus THEN status ELSE us[id].status]]]

PutUser(r) ==
  /\ reqs[r].pc = "putUser"
  /\ \E id \in UserIds, role \in 0..MaxRoleId, status \in StatusInputs :
       LET out == putUser_result(reqs[r], roles, users, id, role, status) IN
       /\ users' = out.users
       /\ reqs' = [reqs EXCEPT ![r] =
                    respond([reqs[r] EXCEPT !.body = << [id |-> id, role |-> role,
                                                         status |-> status] >>], out.res)]
  /\ UNCHANGED << roles, nextRoleId >>

\* ------------------------------------------------------- purchase handlers
\* the literal each handler of src/controllers/role.controller.js gives to
\* checkPermission at its first line
purchaseAction(handler) ==
  CASE handler = "getPurchases"    -> "view_purchases"
    [] handler = "getPurchaseById" -> "view_purchases_id"
    [] handler = "postPurchase"    -> "create_purchases"
    [] handler = "updatePurchase"  -> "edit_purchases"
    [] handler = "deletePurchase"  -> "delete_purchases"

\* `if (!checkPermission(req.user.role, "..")) return res.status(403)...`,
\* then the purchase itself, which leaves roles and users alone
purchaseCheck(q) ==
  IF ~checkPermission_truthy(checkPermission_async(q.mw), q.user[1].role,
                             purchaseAction(q.pc))
  THEN respond(q, Res(403, "Unauthorized access"))
  ELSE respond(q, Res(200, "OK"))

PurchaseHandler(r) ==
  /\ reqs[r].pc \in PurchaseHandlers
  /\ reqs' = [reqs EXCEPT ![r] = purchaseCheck(reqs[r])]
  /\ UNCHANGED << roles, nextRoleId, users >>

\* ------------------------------------------------------------ collaborators
\* the CRUD, report and profile handlers behind the guards: they answer and
\* leave roles and users alone
Collaborator(r) ==
  /\ reqs[r].pc \in Collaborators
  /\ reqs' = [reqs EXCEPT ![r] = respond(reqs[r], Res(200, "OK"))]
  /\ UNCHANGED << roles, nextRoleId, users >>

\* ---------------------------------------------------------------- loginUser
\* src/unnamed/part_011 loginUser (populate("role") of a deleted role leaves
\* null, `user.role._id` throws and the catch answers 500)
loginUser(store, us, u, isMatch) ==
  IF us[u].status = "inactive"
    THEN Res(403, "Your account is inactive. Please contact an administrator.")
  ELSE IF ~isMatch THEN Res(401, "Invalid credentials")
  ELSE IF findById(store, us[u].role) = {} THEN Res(500, "Server error")
  ELSE [Res(200, "") EXCEPT !.token = Claims(u, IdRef(us[u].role))]

\* src/utils/permissions.js loginUser: no status check, the role's name
loginUserByName(store, us, u, isMatch) ==
  IF ~isMatch THEN Res(401, "Invalid credentials")
  ELSE IF findById(store, us[u].role) = {} THEN Res(500, "Server error")
  ELSE [Res(200, "") EXCEPT
          !.token = Claims(u, NameRef((CHOOSE d \in findById(store, us[u].role) : TRUE).name))]

LoginUser(r) ==
  /\ reqs[r].pc = "loginUser"
  /\ \E u \in UserIds, isMatch \in BOOLEAN :
       reqs' = [reqs EXCEPT ![r] = respond(reqs[r], loginUser(roles, users, u, isMatch))]
  /\ UNCHANGED << roles, nextRoleId, users >>

LoginUserByName(r) ==
  /\ reqs[r].pc = "loginUser"
  /\ \E u \in UserIds, isMatch \in BOOLEAN :
       reqs' = [reqs EXCEPT ![r] = respond(reqs[r], loginUserByName(roles, users, u, isMatch))]
  /\ UNCHANGED << roles, nextRoleId, users >>

\* ------------------------------------------------------- request lifecycle
\* the tokens a client can hold: claims a loginUser revision signs for a user
\* and a role document that was created (by _id) or a role name
Credentials ==
  { Claims(u, IdRef(k)) : u \in UserIds, k \in 1..(nextRoleId - 1) }
    \cup { Claims(u, NameRef(n)) : u \in UserIds, n \in StoredNames }

\* a token jwt.verify rejects (forged or expired), whatever it claims
Forged == { Unverifiable(Claims(1, IdRef(1))) }

Headers == { NoHeader } \cup Forged \cup { Signed(t) : t \in Credentials }

\* express matches the route and calls the first element of its chain
Arrive(r, routes, mws, headers) ==
  /\ reqs[r].pc = "idle"
  /\ \A r2 \in ReqIds : r2 < r => reqs[r2].pc # "idle"
  /\ \E route \in routes, mw \in mws, header \in headers :
       /\ Len(Chain(route)) = 1 => header = NoHeader /\ mw = "part_004"
       /\ reqs' = [reqs EXCEPT ![r] =
                  [Idle EXCEPT !.pc = Chain(route)[1], !.stage = 1, !.route = route,
                               !.mw = mw, !.header = header]]
  /\ UNCHANGED << roles, nextRoleId, users >>

\* the response is sent and the request object is discarded
Finish(r) ==
  /\ reqs[r].pc = "done"
  /\ reqs' = [reqs EXCEPT ![r] = Idle]
  /\ UNCHANGED << roles, nextRoleId, users >>

\* --------------------------------------------------------------------- spec
\* the seeded admin role, as either postRole revision stores it
SeedRoles ==
  { RoleDoc(1, admin, TRUE, getDefaultPermissions(admin)),
    RoleDoc(1, admin, FALSE, << >>) }

Init ==
  /\ \E seed \in SeedRoles : roles = { seed }
  /\ nextRoleId = 2
  /\ users = [u \in UserIds |-> [role |-> 1, status |-> "active"]]
  /\ reqs = [r \in ReqIds |-> Idle]

Step(r) ==
  \/ AuthenticateUser(r)
  \/ AuthenticateUserRole(r)
  \/ AuthorizePermission(r)
  \/ PostRoleCheck(r, NameInputs, PermBodies)
  \/ PostRoleV1Check(r, NameInputs)
  \/ PostRoleSave(r)
  \/ UpdateRole(r, NameInputs, PermBodies)
  \/ DeleteRole(r)
  \/ PutUser(r)
  \/ LoginUser(r)
  \/ LoginUserByName(r)
  \/ Collaborator(r)
  \/ Finish(r)

\* requests served one at a time
Next ==
  \/ Arrive(1, RouteInputs, MwRevs, Headers)
  \/ Step(1)

Spec == Init /\ [][Next]_vars

\* ------------------------------------------- the guard on any identity
\* req.user as a guard can find it: any role document, any status
AuthzRoleNames == { admin, assistant, employee, cashier }
AuthzPermLists == PermLists \cup { << >> }
AuthzStatuses == { "active", "undefined" }

Identities ==
  { [id |-> 1, roleId |-> 2,
     role |-> RoleDoc(2, n, d, l), status |-> st] :
       n \in AuthzRoleNames, d \in BOOLEAN, l \in AuthzPermLists, st \in AuthzStatuses }

GuardedRoutes == { r \in Routes : Len(Chain(r)) = 3 }

InitAuthz ==
  /\ \E seed \in SeedRoles : roles = { seed }
  /\ nextRoleId = 2
  /\ users = [u \in UserIds |-> [role |-> 1, status |-> "active"]]
  /\ \E route \in GuardedRoutes, mw \in MwRevs, user \in Identities :
       \* only part_004 copies the user's status into req.user, and its
       \* authenticateUser has rejected an inactive user
       /\ (mw = "part_004") <=> (user.status # "undefined")
       /\ reqs = [r \in ReqIds |->
                 IF r = 1
                 THEN [Idle EXCEPT !.pc = "authorizePermission", !.stage = 2,
                                   !.route = route, !.mw = mw, !.user = << user >>,
                                   !.header = Signed(Claims(user.id, IdRef(user.roleId)))]
                 ELSE Idle]

NextAuthz == AuthorizePermission(1)

SpecAuthz == InitAuthz /\ [][NextAuthz]_vars

\* ----------------------------------------------- overlapping role requests
ConcRoutes == { "POST /roles", "PUT /roles/:id", "DELETE /roles/:id" }
ConcHeaders == { Signed(Claims(1, IdRef(1))) }
ConcMw == { "part_004" }
ConcNames == { admin, AdminRaw, cashier }
ConcBodies == { [given |-> FALSE, list |-> << >>], [given |-> TRUE, list |-> << "view_sales" >>] }

NextConc ==
  \E r \in ReqIds :
    \/ Arrive(r, ConcRoutes, ConcMw, ConcHeaders)
    \/ AuthenticateUser(r)
    \/ AuthenticateUserRole(r)
    \/ AuthorizePermission(r)
    \/ PostRoleCheck(r, ConcNames, ConcBodies)
    \/ PostRoleV1Check(r, ConcNames)
    \/ PostRoleSave(r)
    \/ UpdateRole(r, ConcNames, ConcBodies)
    \/ DeleteRole(r)
    \/ Finish(r)

SpecConc == Init /\ [][NextConc]_vars

\* ------------------------------------- a role's life under its credentials
\* the store after a custom role was created and given to user 2
\* (postRole, then putUser with role = 2)
InitLife ==
  /\ \E seed \in SeedRoles :
       roles = { seed, RoleDoc(2, cashier, FALSE, << "view_sales" >>) }
  /\ nextRoleId = 3
  /\ users = [u \in UserIds |-> [role |-> IF u = 1 THEN 1 ELSE 2, status |-> "active"]]
  /\ reqs = [r \in ReqIds |-> Idle]

\* the tokens loginUser has signed for these users: the role's _id
\* (src/unnamed/part_011) or its name (src/utils/permissions.js)
LifeHeaders ==
  { Signed(Claims(1, IdRef(1))), Signed(Claims(2, IdRef(2))),
    Signed(Claims(2, NameRef(cashier))) }
LifeRoutes == { "PUT /roles/:id", "DELETE /roles/:id", "GET /sales" }
LifeNames == { NoName, cashier }
LifeBodies ==
  { [given |-> FALSE, list |-> << >>],
    [given |-> TRUE, list |-> << "export_sales", "update_roles" >>] }

NextLife ==
  \E r \in ReqIds :
    \/ Arrive(r, LifeRoutes, MwRevs, LifeHeaders)
    \/ AuthenticateUser(r)
    \/ AuthenticateUserRole(r)
    \/ AuthorizePermission(r)
    \/ UpdateRole(r, LifeNames, LifeBodies)
    \/ DeleteRole(r)
    \/ Collaborator(r)
    \/ Finish(r)

SpecLife == InitLife /\ [][NextLife]_vars

\* ----------------------------- the guard that reads the role again
\* req.user as an authenticateUser that sets roleId leaves it
\* (src/middlewares/auth.middleware.js:40-44), and as the authenticateUser of
\* src/unnamed/part_002 leaves it: no roleId, and a role this guard never reads
RefetchRoles ==
  { RoleDoc(2, n, d, l) : n \in { admin, employee, cashier }, d \in BOOLEAN,
                          l \in AuthzPermLists }
RefetchIdentities ==
  { [id |-> 1, roleId |-> 2, role |-> role, status |-> "undefined"] : role \in RefetchRoles }
    \cup { [id |-> 1, roleId |-> 0, role |-> NoDoc, status |-> "undefined"] }

\* the store holds the identity's role, or no longer does
InitRefetch ==
  /\ nextRoleId = 3
  /\ users = [u \in UserIds |-> [role |-> 1, status |-> "active"]]
  /\ \E seed \in SeedRoles, route \in GuardedRoutes, user \in RefetchIdentities,
        stored \in BOOLEAN :
       /\ roles = (IF user.role.name = admin THEN {} ELSE { seed })
                    \cup (IF stored /\ user.roleId # 0 THEN { user.role } ELSE {})
       /\ reqs = [r \in ReqIds |->
                 IF r = 1
                 THEN [Idle EXCEPT !.pc = "authorizePermission", !.stage = 2,
                                   !.route = route, !.mw = "part_002",
                                   !.user = << user >>,
                                   !.header = Signed(Claims(user.id, IdRef(2)))]
                 ELSE Idle]

SpecRefetch == InitRefetch /\ [][NextAuthz]_vars

\* ------------------------------------------------- the permission tables
\* the strings the code asks the tables about: the catalog and the literals
\* of routes and handlers outside it
TableActions ==
  { ALL_PERMISSIONS[i] : i \in DOMAIN ALL_PERMISSIONS }
    \cup { "update_products", "edit_purchases", "export_sales", "generate_invoice" }

InitTables ==
  /\ \E seed \in SeedRoles : roles = { seed }
  /\ nextRoleId = 2
  /\ users = [u \in UserIds |-> [role |-> 1, status |-> "active"]]
  /\ \E table \in TableRevs, n \in AuthzRoleNames, a \in TableActions :
       reqs = [r \in ReqIds |->
                IF r = 1
                THEN [Idle EXCEPT !.pc = "getDefaultPermissions", !.table = table,
                                  !.name = n, !.action = a]
                ELSE Idle]

NextTables == LookupDefaults(1)

SpecTables == InitTables /\ [][NextTables]_vars

\* ------------------------------------------------ lookups that may throw
\* the pipeline of the life-cycle state with a store that can fail under
\* any lookup
FaultHeaders ==
  { NoHeader } \cup Forged
    \cup { Signed(Claims(1, IdRef(1))), Signed(Claims(2, IdRef(2))),
           Signed(Claims(2, NameRef(employee))) }
FaultRoutes == { "GET /auth/me", "GET /users", "GET /sales" }

NextFault ==
  \E r \in ReqIds :
    \/ Arrive(r, FaultRoutes, MwRevs, FaultHeaders)
    \/ AuthenticateUser(r)
    \/ AuthenticateUserThrows(r)
    \/ AuthenticateUserRole(r)
    \/ AuthorizePermission(r)
    \/ AuthorizePermissionThrows(r)
    \/ Collaborator(r)
    \/ Finish(r)

SpecFault == InitLife /\ [][NextFault]_vars

\* ------------------------------------------- id and name credentials
\* every revision of authenticateUser, on the tokens the loginUser
\* revisions sign for the users of the life-cycle state: the role's _id
\* (src/unnamed/part_011:103-107) or its name (src/utils/permissions.js:112-116)
ResolveMw == MwRevs \cup { "part_001" }
ResolveHeaders ==
  { Signed(Claims(1, IdRef(1))), Signed(Claims(1, NameRef(admin))),
    Signed(Claims(2, IdRef(2))), Signed(Claims(2, NameRef(cashier))),
    Signed(Claims(2, NameRef(employee))) }
ResolveRoutes == { "GET /auth/me", "GET /users", "GET /sales" }

NextResolve ==
  \E r \in ReqIds :
    \/ Arrive(r, ResolveRoutes, ResolveMw, ResolveHeaders)
    \/ AuthenticateUser(r)
    \/ AuthenticateUserRole(r)
    \/ AuthorizePermission(r)
    \/ Collaborator(r)
    \/ Finish(r)

SpecResolve == InitLife /\ [][NextResolve]_vars

\* ------------------------------------------------- putUser on any identity
\* PUT /users/:id from its guard on, for user 1 under any role document the
\* store can hold as role 2
InitPutUser ==
  /\ nextRoleId = 3
  /\ users = [u \in UserIds |-> [role |-> 2, status |-> "active"]]
  /\ \E seed \in SeedRoles, mw \in MwRevs, user \in Identities :
       /\ (mw = "part_004") <=> (user.status # "undefined")
       /\ roles = (IF user.role.name = admin THEN {} ELSE { seed }) \cup { user.role }
       /\ reqs = [r \in ReqIds |->
                 IF r = 1
                 THEN [Idle EXCEPT !.pc = "authorizePermission", !.stage = 2,
                                   !.route = "PUT /users/:id", !.mw = mw,
                                   !.user = << user >>,
                                   !.header = Signed(Claims(user.id, IdRef(user.roleId)))]
                 ELSE Idle]

NextPutUser ==
  \/ AuthorizePermission(1)
  \/ PutUser(1)

SpecPutUser == InitPutUser /\ [][NextPutUser]_vars

\* -------------------------------------------------------- purchase requests
PurchaseRoutes ==
  { "GET /purchases", "GET /purchases/:id", "POST /purchases", "PUT /purchases/:id",
    "DELETE /purchases/:id" }
PurchaseMw == MwRevs \cup { "part_001", "part_003" }
PurchaseHeaders ==
  { Signed(Claims(1, IdRef(1))), Signed(Claims(1, NameRef(admin))),
    Signed(Claims(2, IdRef(2))), Signed(Claims(2, NameRef(cashier))),
    Signed(Claims(2, NameRef(assistant))), Signed(Claims(2, NameRef(employee))) }

NextPurchase ==
  \/ Arrive(1, PurchaseRoutes, PurchaseMw, PurchaseHeaders)
  \/ AuthenticateUser(1)
  \/ AuthenticateUserRole(1)
  \/ AuthorizePermission(1)
  \/ PurchaseHandler(1)
  \/ Finish(1)

SpecPurchase == InitLife /\ [][NextPurchase]_vars

\* ===================================================================== claims
\* what a request's position says about its guards
HasGuard(q, g) == q.route # "" /\ includes(Chain(q.route), g)
Perm(q) == RouteTable[q.route].perm

\* authorizePermission has decided the request: it called next() or answered
Allowed(q) == HasGuard(q, "authorizePermission") /\ q.stage = 3
Denied(q) == HasGuard(q, "authorizePermission") /\ q.stage = 2 /\ q.pc = "done"
Decided(q) == Allowed(q) \/ Denied(q)

\* the route's handler was called
HandlerRan(q) == q.route # "" /\ q.stage = Len(Chain(q.route))

Catalog == { ALL_PERMISSIONS[i] : i \in DOMAIN ALL_PERMISSIONS }
BuiltIn == { admin, assistant, employee }
Stored(role) == { role.permissions[i] : i \in DOMAIN role.permissions }
Defaults(n) == { getDefaultPermissions(n)[i] : i \in DOMAIN getDefaultPermissions(n) }

\* C1: an identity that is not inactive and whose role is named admin is let
\* through by authorizePermission, on the route it took and for every
\* permission of the catalog, whatever its isDefault flag and stored list
C1_AdminAllowed ==
  \A r \in ReqIds :
    LET q == reqs[r] IN
    (q.user # << >> /\ q.user[1].status # "inactive" /\ q.user[1].role.name = admin)
      => /\ Decided(q) => Allowed(q)
         /\ \A p \in Catalog : authorizePermission(q.mw, q.user, p) = << >>

\* an admin role with isDefault = false and a stored list without the
\* permission, let through
C1_Witness ==
  \E r \in ReqIds :
    LET q == reqs[r] IN
    /\ Allowed(q) /\ q.user[1].role.name = admin /\ ~q.user[1].role.isDefault
    /\ Perm(q) \in Catalog /\ Perm(q) \notin Stored(q.user[1].role)
    /\ q.user[1].status = "active"

C3_Orig ==
  \A r \in ReqIds :
    LET q == reqs[r] IN
    (Decided(q) /\ ~q.user[1].role.isDefault /\ q.user[1].role \in roles)
      => (Allowed(q) <=> Perm(q) \in Stored(q.user[1].role))

\* C4 as stated: an identity whose account is inactive is denied by
\* authorizePermission, whatever its role and the permission are, and the
\* handler is not reached
C4_Orig ==
  [][\A r \in ReqIds :
       (/\ reqs[r].pc = "authorizePermission" /\ reqs'[r] # reqs[r]
        /\ reqs[r].user # << >>
        /\ users[reqs[r].user[1].id].status = "inactive")
         => Denied(reqs'[r]) /\ ~HandlerRan(reqs'[r])]_vars

\* C5 as stated: an authenticateUser call that starts when the credential's
\* user is inactive rejects the request and sets no identity
C5_Orig ==
  [][\A r \in ReqIds :
       (/\ reqs[r].pc = "authenticateUser" /\ reqs'[r] # reqs[r]
        /\ reqs[r].header.kind = "signed"
        /\ reqs[r].header.id \in DOMAIN users
        /\ users[reqs[r].header.id].status = "inactive")
         => reqs'[r].pc = "done" /\ reqs'[r].user = << >>]_vars

MissingCredential(res) == res = Res(401, "No token provided")
InvalidCredential(res) ==
  res.status = 401 /\ res.message \in { "Token error", "Invalid token" }

\* C6: once authenticateUser has run on a request without an Authorization
\* header the request has ended with the missing-credential answer, on one
\* whose token fails verification with the invalid-credential answer; in
\* both cases req.user is not set and next() was not called
C6_NoIdentityWithoutCredential ==
  \A r \in ReqIds :
    LET q == reqs[r] IN
    (HasGuard(q, "authenticateUser") /\ q.pc # "authenticateUser"
       /\ q.header.kind \in { "none", "unverifiable" })
      => /\ q.pc = "done" /\ q.stage = 1 /\ q.user = << >>
         /\ q.header.kind = "none" => MissingCredential(q.res[1])
         /\ q.header.kind = "unverifiable" => InvalidCredential(q.res[1])

\* a forged token that names an existing user and role, answered 401
C6_Witness ==
  \E r \in ReqIds :
    LET q == reqs[r] IN
    /\ q.pc = "done" /\ q.header.kind = "unverifiable"
    /\ q.header.id \in DOMAIN users /\ resolveRole(roles, q.header.role) # {}
    /\ InvalidCredential(q.res[1])

\* C7 as stated: on every endpoint behind authenticateUser the handler runs
\* only after authenticateUser set an identity and authorizePermission
\* allowed the request
C7_Orig ==
  \A r \in ReqIds :
    LET q == reqs[r] IN
    (HasGuard(q, "authenticateUser") /\ HandlerRan(q))
      => /\ q.user # << >>
         /\ HasGuard(q, "authorizePermission")
         /\ authorizePermission(q.mw, q.user, Perm(q)) = << >>

\* C7 amended: a handler behind authenticateUser runs only with an identity
\* set; on a route that lists authorizePermission too it runs only if that
\* guard allowed, and the guard decides only with an identity set; a request
\* a guard answered is never handed on
C7_Amended ==
  \A r \in ReqIds :
    LET q == reqs[r] IN
    /\ (HasGuard(q, "authenticateUser") /\ HandlerRan(q)) => q.user # << >>
    /\ (HasGuard(q, "authorizePermission") /\ HandlerRan(q))
         => authorizePermission(q.mw, q.user, Perm(q)) = << >>
    /\ q.pc = "authorizePermission" => q.user # << >> /\ q.res = << >>
    /\ (q.route # "" /\ q.stage < Len(Chain(q.route)) /\ q.res # << >>) => q.pc = "done"

\* a handler behind both guards has answered a non-admin identity
C7_Witness ==
  \E r \in ReqIds :
    LET q == reqs[r] IN
    /\ HasGuard(q, "authorizePermission") /\ HandlerRan(q) /\ q.pc = "done"
    /\ q.user # << >> /\ q.user[1].role.name # admin

\* C8 as stated: postRole with a name whose normalized form is the name of a
\* stored role answers "Role already exists" and stores nothing
C8_Orig ==
  [][\A r \in ReqIds :
       (/\ reqs[r].pc = "postRole" /\ reqs'[r] # reqs[r]
        /\ reqs'[r].name # NoName
        /\ findOneByName(roles, trim(toLowerCase(reqs'[r].name))) # {})
         => /\ reqs'[r].pc = "done"
            /\ reqs'[r].res = << Res(400, "Role already exists") >>
            /\ roles' = roles]_vars

\* C9: no two stored roles have the same normalized name, and no two the
\* same _id
C9_UniqueNames ==
  \A d1, d2 \in roles :
    d1 # d2 => /\ trim(toLowerCase(d1.name)) # trim(toLowerCase(d2.name))
               /\ d1.id # d2.id

\* two roles are stored and a rename of one to the other's name was refused
C9_Witness ==
  /\ Cardinality(roles) = 2
  /\ \E r \in ReqIds :
       /\ reqs[r].route = "PUT /roles/:id" /\ reqs[r].pc = "done"
       /\ reqs[r].res = << Res(500, "Error updating role") >>

\* C10 as stated: of two postRole requests that both passed the existence
\* check with the same name, the one whose save the unique index refused is
\* answered "Role already exists", and the name is stored once
C10_Orig ==
  \A r \in ReqIds :
    LET q == reqs[r] IN
    (/\ q.route = "POST /roles" /\ q.pc = "done" /\ q.doc # NoDoc /\ q.doc.id = 0
     /\ \E r2 \in ReqIds \ { r } :
          /\ reqs[r2].route = "POST /roles" /\ reqs[r2].doc # NoDoc
          /\ reqs[r2].doc.id # 0 /\ reqs[r2].doc.name = q.doc.name)
      => /\ q.res = << Res(400, "Role already exists") >>
         /\ Cardinality(findOneByName(roles, q.doc.name)) <= 1

\* C11: an updateRole whose body names an isDefault role differently is
\* answered "Cannot change the name of default roles" and writes nothing,
\* and no step changes the name of a stored isDefault role
C11_DefaultNameImmutable ==
  [][/\ \A r \in ReqIds :
          (/\ reqs[r].pc = "updateRole" /\ reqs'[r].pc = "done"
           /\ reqs'[r].doc # NoDoc /\ reqs'[r].doc.isDefault
           /\ reqs'[r].name # NoName
           /\ trim(toLowerCase(reqs'[r].name)) # reqs'[r].doc.name)
            => /\ reqs'[r].res = << Res(400, "Cannot change the name of default roles") >>
               /\ roles' = roles
     /\ \A d \in roles : \A d2 \in roles' :
          (d.isDefault /\ d2.id = d.id) => d2.name = d.name]_vars

\* a rename of the isDefault admin role to cashier was refused and the role
\* is stored as it was
C11_Witness ==
  \E r \in ReqIds :
    LET q == reqs[r] IN
    /\ q.route = "PUT /roles/:id" /\ q.pc = "done"
    /\ q.doc.isDefault /\ q.doc.name = admin /\ q.name = cashier
    /\ q.res = << Res(400, "Cannot change the name of default roles") >>
    /\ q.doc \in roles

\* C12 as stated: no step removes a stored role whose name is admin,
\* assistant or employee
C12_Orig ==
  [][\A d \in roles :
       d.name \in BuiltIn => \E d2 \in roles' : d2.id = d.id]_vars

IsDefaultIffBuiltIn(store) == \A d \in store : d.isDefault <=> d.name \in BuiltIn

\* C13 as stated: no role operation leads from a store where isDefault holds
\* exactly for the built-in names to one where it does not
C13_Orig == [][IsDefaultIffBuiltIn(roles) => IsDefaultIffBuiltIn(roles')]_vars

\* the step of authenticateUser that looks the role up
LooksRoleUp(q) ==
  \/ q.pc = "authenticateUser" /\ q.mw # "part_004" /\ verifyToken(q.header) = << >>
  \/ q.pc = "authenticateUser_role"

\* a deleteRole request that has answered 200 for the role it found
Deleted(q, d) ==
  /\ q.route = "DELETE /roles/:id" /\ q.pc = "done"
  /\ q.res = << Res(200, "Role deleted successfully") >> /\ q.doc = d

C15_FreshRole ==
  [][\A r \in ReqIds :
       LET q == reqs[r]
           q2 == reqs'[r]
       IN /\ (LooksRoleUp(q) /\ q2.user # << >>) => q2.user[1].role \in roles
          /\ (q.pc = "authorizePermission" /\ q2 # q)
               => (Allowed(q2) <=> \/ q.user[1].role.name = admin
                                   \/ Perm(q) \in Defaults(q.user[1].role.name)
                                   \/ Perm(q) \in Stored(q.user[1].role))
          /\ (q.pc = "idle" /\ q2 # q) => q2.user = << >>
          /\ (q.user # << >> /\ q2.pc # "idle") => q2.user = q.user]_vars

\* role 2 was stored with view_sales only; after updateRole replaced its
\* list a request of user 2 on GET /sales is denied on the new list
C15_Witness ==
  \E r \in ReqIds :
    LET q == reqs[r] IN
    /\ q.route = "GET /sales" /\ Denied(q) /\ q.header = Signed(Claims(2, IdRef(2)))
    /\ q.user[1].role = RoleDoc(2, cashier, FALSE, << "export_sales", "update_roles" >>)
    /\ q.user[1].role \in roles
    /\ q.res[1].required = "view_sales"

\* C16 as stated: authorizePermission denies a request whose resolved role
\* is no longer in the store when the guard runs
C16_Orig ==
  [][\A r \in ReqIds :
       (/\ reqs[r].pc = "authorizePermission" /\ reqs'[r] # reqs[r]
        /\ reqs[r].user # << >>
        /\ findById(roles, reqs[r].user[1].roleId) = {})
         => Denied(reqs'[r])]_vars

\* C17: a step of authenticateUser writes neither the roles nor the users,
\* touches no other request, and changes of its own request only the
\* position and either req.user (it goes on) or the response (it ends)
C17_AuthenticateFrame ==
  [][\A r \in ReqIds :
       LET q == reqs[r]
           q2 == reqs'[r]
       IN (q.pc \in { "authenticateUser", "authenticateUser_role" } /\ q2 # q)
            => /\ roles' = roles /\ users' = users /\ nextRoleId' = nextRoleId
               /\ \A r2 \in ReqIds \ { r } : reqs'[r2] = reqs[r2]
               /\ q2.header = q.header /\ q2.route = q.route /\ q2.mw = q.mw
               /\ q2.name = q.name /\ q2.doc = q.doc
               /\ q2.user # << >> => q2.res = << >> /\ q2.pc = Chain(q.route)[2]
               /\ q2.pc = "done" => q2.user = << >> /\ q2.res # << >>]_vars

\* one request was given an identity and another was rejected for a role
\* that is not stored, with both users still referring to their roles
C17_Witness ==
  \E r1, r2 \in ReqIds :
    /\ reqs[r1].pc = "authorizePermission" /\ reqs[r1].user # << >>
    /\ reqs[r2].pc = "done" /\ reqs[r2].stage = 1
    /\ reqs[r2].res = << Res(403, "Role not found") >>
    /\ users[reqs[r2].header.id].role = reqs[r2].header.role.id

\* C18: the decision taken for a request is the one authorizePermission gives
\* again for the same identity and permission, and any identity with the same
\* role name, stored list and status gets the same decision
C18_DecisionFunction ==
  \A r \in ReqIds :
    LET q == reqs[r]
        allow(user) == authorizePermission(q.mw, user, Perm(q)) = << >>
    IN (HasGuard(q, "authorizePermission") /\ q.user # << >>)
         => /\ Decided(q) => (Allowed(q) <=> allow(q.user))
            /\ \A u2 \in Identities :
                 (/\ u2.role.name = q.user[1].role.name
                  /\ u2.role.permissions = q.user[1].role.permissions
                  /\ u2.status = q.user[1].status)
                   => (allow(<< u2 >>) <=> allow(q.user))

\* an employee role stored with isDefault = false is let through on a
\* permission of the employee defaults, as the flagged one is
C18_Witness ==
  \E r \in ReqIds :
    LET q == reqs[r] IN
    /\ Allowed(q) /\ q.user[1].role.name = employee /\ ~q.user[1].role.isDefault
    /\ Perm(q) \in Defaults(employee) /\ Perm(q) \notin Stored(q.user[1].role)

C20_Orig ==
  \A r \in ReqIds :
    LET q == reqs[r] IN
    (HasGuard(q, "authenticateUser") /\ q.pc = "done" /\ q.stage = 1)
      => q.res[1].status = 401

\* C23: the admin defaults are the whole catalog, and the assistant and
\* employee defaults hold nothing outside the catalog
C23_Orig ==
  \A r \in ReqIds :
    LET q == reqs[r] IN
    (q.pc = "done" /\ q.table # "" /\ q.ret # << >>) =>
      LET perms == { q.ret[1].list[i] : i \in DOMAIN q.ret[1].list } IN
      /\ q.name = admin => perms = Catalog
      /\ q.name \in { assistant, employee } => perms \subseteq Catalog

\* C24: the literal a route gives to authorizePermission is a member of
\* ALL_PERMISSIONS, whatever the guard decides about the request
C24_Orig ==
  \A r \in ReqIds :
    LET q == reqs[r] IN
    Decided(q) => Perm(q) \in Catalog

\* C21: a request one of whose lookups threw, in authenticateUser or in
\* authorizePermission, has ended with a rejection at the guard where it
\* was: next() was not called, no identity was added, the handler did not run
C21_FailClosed ==
  \A r \in ReqIds :
    LET q == reqs[r] IN
    q.caught # "" =>
      /\ q.pc = "done" /\ ~HandlerRan(q)
      /\ q.res # << >> /\ q.res[1].status \in { 401, 403 }
      /\ q.stage = 1 => q.user = << >>

\* a verified token of an existing user and role, the lookup threw, and
\* the request was rejected
C21_Witness ==
  \E r \in ReqIds :
    LET q == reqs[r] IN
    /\ q.caught = "store" /\ q.pc = "done" /\ q.stage = 1
    /\ q.header = Signed(Claims(1, IdRef(1)))
    /\ q.res = << Res(401, "Token error") >>

\* C22: the answer to a request whose lookup threw differs from the answer
\* to every request that was denied for another reason
C22_Orig ==
  \A r, r2 \in ReqIds :
    LET q == reqs[r]
        q2 == reqs[r2]
    IN (/\ q.caught = "store" /\ q.pc = "done"
        /\ q2.caught = "" /\ q2.pc = "done" /\ q2.res # << >>
        /\ q2.res[1].status \in { 401, 403, 404 })
       => q.res # q2.res

\* authenticateUser is through with the request: it called next() or it
\* ended the request
Authenticated(q) ==
  HasGuard(q, "authenticateUser") /\ (q.stage >= 2 \/ (q.stage = 1 /\ q.pc = "done"))

\* C25: a credential that carries a stored role's id and one that carries
\* its name both leave authenticateUser with that role record as the
\* identity's role
C25_Orig ==
  \A r \in ReqIds :
    LET q == reqs[r] IN
    (Authenticated(q) /\ q.header.kind = "signed") =>
      \A d \in roles :
        (q.header.role = IdRef(d.id) \/ q.header.role = NameRef(d.name)) =>
          q.user # << >> /\ q.user[1].role = d

\* C26: a postRole step that ends the request with anything but 201 leaves
\* the Role Store as it was, so the stored role of the same name keeps its
\* id, its isDefault flag and its permissions
C26_PostRoleFrame ==
  [][\A r \in ReqIds :
       (/\ reqs[r].pc \in { "postRole", "postRole_save" }
        /\ reqs'[r].pc = "done"
        /\ reqs'[r].res[1].status # 201)
       => roles' = roles]_vars

\* a postRole refused for a name the store holds, and one whose save failed,
\* with the role of that name in the store
C26_Witness ==
  \E r, r2 \in ReqIds :
    LET q == reqs[r]
        q2 == reqs[r2]
    IN /\ q.route = "POST /roles" /\ q.pc = "done"
       /\ q.res = << Res(400, "Role already exists") >>
       /\ q2.route = "POST /roles" /\ q2.pc = "done"
       /\ q2.res = << Res(500, "Error creating role") >>
       /\ \E d \in roles : d.name = SchemaName(q.name)
       /\ \E d \in roles : d.name = SchemaName(q2.name)

\* C27: a putUser step for a requester whose role is not named admin
\* leaves the role and the status of every user record as they were
C27_NonAdminFrame ==
  [][\A r \in ReqIds :
       (/\ reqs[r].pc = "putUser" /\ reqs'[r].pc = "done"
        /\ reqs[r].user[1].role.name # admin)
       => \A u \in UserIds : users'[u] = users[u]]_vars

\* a requester who is not admin edited their own record with a body that
\* carried another role and a status, and the request was answered 200
C27_Witness ==
  \E r \in ReqIds :
    LET q == reqs[r] IN
    /\ q.route = "PUT /users/:id" /\ q.pc = "done" /\ q.body # << >>
    /\ q.user[1].role.name # admin
    /\ q.body[1].id = q.user[1].id
    /\ q.body[1].role # 0 /\ q.body[1].role # users[q.body[1].id].role
    /\ q.body[1].status = "suspended"
    /\ q.res = << Res(200, "User updated successfully") >>

\* C28: the role reference of every user record is the id of a role the
\* Role Store holds
C28_Orig ==
  \A u \in UserIds : \E d \in roles : d.id = users[u].role

\* C29: a loginUser step that answers with a token answers a user whose
\* status is not inactive, and the token carries that user's id and the id
\* or the name of the role the user record references
C29_Orig ==
  [][\A r \in ReqIds :
       (/\ reqs[r].pc = "loginUser" /\ reqs'[r].pc = "done"
        /\ reqs'[r].res[1].token # NoClaims)
       => LET t == reqs'[r].res[1].token IN
          /\ t.id \in UserIds
          /\ users[t.id].status # "inactive"
          /\ \/ t.role = IdRef(users[t.id].role)
             \/ \E d \in roles : d.id = users[t.id].role /\ t.role = NameRef(d.name)]_vars

\* C30: a purchase request the route guard allowed is not refused by the
\* permission check its handler makes
C30_Orig ==
  \A r \in ReqIds :
    LET q == reqs[r] IN
    (q.route \in PurchaseRoutes /\ HandlerRan(q) /\ q.pc = "done") =>
      q.res # << Res(403, "Unauthorized access") >>

=============================================================================
